---------------------------- MODULE Spec2Model ----------------------------
(***************************************************************************)
(* A model of the CHIP-8 interpreter core of src/src/main.rs: the CPU      *)
(* struct (registers, memory, stack, timers), the operations new,          *)
(* load_rom, initialize and cycle (fetch_instruction, parse_opcode,        *)
(* execute), and the instruction handlers.                                 *)
(*                                                                         *)
(* A Rust panic (an index out of bounds, unwrap on None, an arithmetic     *)
(* overflow with overflow checks on) aborts the process: the model records *)
(* it in the field panicked of the CPU value and in the variable status,   *)
(* after which no operation is enabled.                                    *)
(***************************************************************************)
EXTENDS Integers, Sequences, FiniteSets, TLC

(***************************************************************************)
(* Program constants.                                                      *)
(***************************************************************************)
\* memory: [u8; 4096]
MemSize == 4096
\* load_rom writes the image from 0x200 on and sets PC to 0x200
ProgramStart == 512
\* stack: vec![0u16; 16]
StackInit == 16
\* Target_Register::I and Target_Register::PC, after V0..VF = 0..15
Reg_I == 16
Reg_PC == 17
\* the width of the u8 and u16 cells
U8 == 256
U16 == 65536

(***************************************************************************)
(* Bounds of the model.                                                    *)
(***************************************************************************)
\* the number of cycles run on one loaded program
MaxCycles == 4
MaxTicks == 2
\* the number of cycles of a long run
MaxLong == 245

(***************************************************************************)
(* Bitwise operations on naturals (&, |, ^ of Rust on u8 / u16).           *)
(***************************************************************************)
RECURSIVE BitAnd(_, _)
BitAnd(a, b) ==
    IF a = 0 \/ b = 0 THEN 0
    ELSE ((a % 2) * (b % 2)) + 2 * BitAnd(a \div 2, b \div 2)

RECURSIVE BitOr(_, _)
BitOr(a, b) ==
    IF a = 0 THEN b
    ELSE IF b = 0 THEN a
    ELSE (IF (a % 2) + (b % 2) > 0 THEN 1 ELSE 0) + 2 * BitOr(a \div 2, b \div 2)

RECURSIVE BitXor(_, _)
BitXor(a, b) ==
    IF a = 0 THEN b
    ELSE IF b = 0 THEN a
    ELSE ((a + b) % 2) + 2 * BitXor(a \div 2, b \div 2)

(***************************************************************************)
(* Registers::new, Timers::new, CPU::new.                                  *)
(***************************************************************************)
Registers_new == [V |-> [r \in 0..15 |-> 0], I |-> 0, PC |-> 0]

Timers_new == [delay |-> 0, sound |-> 0]

CPU_new ==
    [registers |-> Registers_new,
     memory    |-> [a \in 0..(MemSize - 1) |-> 0],
     stack     |-> [i \in 1..StackInit |-> 0],
     timers    |-> Timers_new,
     panicked  |-> FALSE]

\* Target_Register::u8_to_register
u8_to_register(value) == IF value \in 0..15 THEN value ELSE Reg_PC


(***************************************************************************)
(* A panic: the process aborts where it stands.                            *)
(***************************************************************************)
Panic(self) == [self EXCEPT !.panicked = TRUE]

(***************************************************************************)
(* `x += y` on a u16 cell: with overflow checks on (a debug build) an      *)
(* overflow panics, without them (a release build) it wraps.               *)
(***************************************************************************)
SetPC(self, sum, checks) ==
    IF sum >= U16
    THEN IF checks THEN Panic(self)
         ELSE [self EXCEPT !.registers.PC = sum % U16]
    ELSE [self EXCEPT !.registers.PC = sum]

SetI(self, sum, checks) ==
    IF sum >= U16
    THEN IF checks THEN Panic(self)
         ELSE [self EXCEPT !.registers.I = sum % U16]
    ELSE [self EXCEPT !.registers.I = sum]

(***************************************************************************)
(* CPU::load_rom, the Ok arm of fs::read: x is the file's bytes.  The      *)
(* write memory[0x200 + y] is out of bounds at y = 4096 - 0x200 and        *)
(* panics there, with the bytes before it written and PC not yet set.      *)
(***************************************************************************)
\* load_rom that copies the image to the start of memory
load_rom_from_zero(self, x) ==
    LET written == [self EXCEPT !.memory =
                      [a \in 0..(MemSize - 1) |->
                         IF a < Len(x) THEN x[a + 1] ELSE self.memory[a]]]
    IN  IF Len(x) > MemSize
        THEN Panic(written)
        ELSE [written EXCEPT !.registers.PC = ProgramStart]

\* load_rom that clears the memory before it copies the image
load_rom_clearing(self, x) ==
    IF Len(x) > MemSize - ProgramStart
    THEN Panic(self)
    ELSE [self EXCEPT !.memory =
                         [a \in 0..(MemSize - 1) |->
                            IF a >= ProgramStart /\ a < ProgramStart + Len(x)
                            THEN x[a - ProgramStart + 1] ELSE 0],
                      !.registers.PC = ProgramStart]

load_rom(self, x) ==
    LET n == IF Len(x) <= MemSize - ProgramStart
             THEN Len(x) ELSE MemSize - ProgramStart
        written == [self EXCEPT !.memory =
                      [a \in 0..(MemSize - 1) |->
                         IF a >= ProgramStart /\ a < ProgramStart + n
                         THEN x[a - ProgramStart + 1]
                         ELSE self.memory[a]]]
    IN  IF Len(x) > MemSize - ProgramStart
        THEN Panic(written)
        ELSE [written EXCEPT !.registers.PC = ProgramStart]

(***************************************************************************)
(* CPU::fetch_instruction: the word at PC, high byte first; PC advances by *)
(* one after each byte.  Either read panics when PC is not below 4096.     *)
(* The result is the CPU value and the opcode.                             *)
(***************************************************************************)
\* fetch_instruction that takes the low byte of the word first
fetch_instruction_swapped(self) ==
    LET pc == self.registers.PC
    IN  IF pc + 1 >= MemSize
        THEN [cpu |-> Panic(self), opcode |-> 0]
        ELSE [cpu    |-> [self EXCEPT !.registers.PC = pc + 2],
              opcode |-> self.memory[pc + 1] * 256 + self.memory[pc]]

fetch_instruction(self) ==
    LET pc == self.registers.PC
    IN  IF pc >= MemSize
        THEN [cpu |-> Panic(self), opcode |-> 0]
        ELSE IF pc + 1 >= MemSize
        THEN [cpu |-> Panic([self EXCEPT !.registers.PC = pc + 1]), opcode |-> 0]
        ELSE [cpu    |-> [self EXCEPT !.registers.PC = pc + 2],
              opcode |-> self.memory[pc] * 256 + self.memory[pc + 1]]

(***************************************************************************)
(* CPU::initialize: the registers, memory and the stack; not the timers.   *)
(***************************************************************************)
initialize(self) ==
    [self EXCEPT
        !.registers = [V  |-> [r \in 0..15 |-> BitXor(self.registers.V[r], self.registers.V[r])],
                       I  |-> BitXor(self.registers.I, self.registers.I),
                       PC |-> BitXor(self.registers.PC, self.registers.PC)],
        !.memory    = [a \in 0..(MemSize - 1) |-> 0],
        !.stack     = [i \in 1..StackInit |-> 0]]

(***************************************************************************)
(* CPU::parse_opcode.  The instruction starts as JUMP { address: 0x200 }   *)
(* and stays so for a word no arm matches.                                 *)
(***************************************************************************)
RegX(opcode) == u8_to_register((opcode \div 256) % 16)
\* the second register taken from the lowest nibble
RegY_low(opcode) == u8_to_register(opcode % 16)

RegY(opcode) == u8_to_register((opcode \div 16) % 16)
LowByte(opcode) == opcode % 256

Default_Instruction == [op |-> "JUMP", address |-> ProgramStart]

\* two-register decoding that matches the low nibble 0 of 5XY0 and 9XY0
Rr_strict(name, opcode) ==
    IF name \in {"SKREQ", "SKRNEQ"} /\ opcode % 16 # 0
    THEN Default_Instruction
    ELSE [op |-> name, register1 |-> RegX(opcode), register2 |-> RegY(opcode)]

Rr(name, opcode) == [op |-> name, register1 |-> RegX(opcode), register2 |-> RegY(opcode)]
Rv(name, opcode) == [op |-> name, register |-> RegX(opcode), value |-> LowByte(opcode)]
R1(name, opcode) == [op |-> name, register |-> RegX(opcode)]

parse_opcode(opcode) ==
    LET family == opcode \div 4096
        low == opcode % 16
    IN  CASE family = 0 ->
               (CASE opcode = 0   -> [op |-> "NOP"]
                  [] opcode = 224 -> [op |-> "Display"]
                  [] opcode = 238 -> [op |-> "Return"]
                  [] OTHER        -> Default_Instruction)
          [] family = 1  -> [op |-> "JUMP", address |-> opcode % 4096]
          [] family = 2  -> [op |-> "Call", address |-> opcode % 4096]
          [] family = 3  -> Rv("SKEQ", opcode)
          [] family = 4  -> Rv("SKNEQ", opcode)
          [] family = 5  -> Rr("SKREQ", opcode)
          [] family = 6  -> Rv("SET", opcode)
          [] family = 7  -> Rv("ADD", opcode)
          [] family = 8  ->
               (CASE low = 0  -> Rr("COPYR", opcode)
                  [] low = 1  -> Rr("OR", opcode)
                  [] low = 2  -> Rr("AND", opcode)
                  [] low = 3  -> Rr("XOR", opcode)
                  [] low = 4  -> Rr("ADDR", opcode)
                  [] low = 5  -> Rr("SUBX", opcode)
                  [] low = 6  -> Rr("SHFTR", opcode)
                  [] low = 7  -> Rr("SUBY", opcode)
                  [] low = 14 -> Rr("SHFTL", opcode)
                  [] OTHER    -> Default_Instruction)
          [] family = 9  -> Rr("SKRNEQ", opcode)
          [] family = 10 -> [op |-> "SETI", value |-> opcode % 4096]
          [] family = 11 -> [op |-> "JMP0", address |-> opcode % 4096]
          [] family = 12 -> Rv("RAND", opcode)
          [] family = 13 -> [op |-> "DRAW", register1 |-> RegX(opcode),
                             register2 |-> RegY(opcode), height |-> low]
          [] family = 14 ->
               (CASE LowByte(opcode) = 158 -> R1("SKKEQ", opcode)
                  [] LowByte(opcode) = 161 -> R1("SKKNEQ", opcode)
                  [] OTHER                 -> Default_Instruction)
          [] family = 15 ->
               (CASE LowByte(opcode) = 7   -> R1("SETXD", opcode)
                  [] LowByte(opcode) = 10  -> R1("STORE", opcode)
                  [] LowByte(opcode) = 21  -> R1("SETD", opcode)
                  [] LowByte(opcode) = 24  -> R1("SETS", opcode)
                  [] LowByte(opcode) = 30  -> R1("ADDI", opcode)
                  [] LowByte(opcode) = 41  -> R1("SPRITE", opcode)
                  [] LowByte(opcode) = 51  -> R1("BCD", opcode)
                  [] LowByte(opcode) = 85  -> R1("DUMP", opcode)
                  [] LowByte(opcode) = 101 -> R1("LOAD", opcode)
                  [] OTHER                 -> Default_Instruction)
          [] OTHER -> Default_Instruction

(***************************************************************************)
(* The words for which parse_opcode prints "Unexpected opcode" to stderr   *)
(* (and returns the instruction it started with).                          *)
(***************************************************************************)
parse_opcode_unexpected(opcode) ==
    LET family == opcode \div 4096
    IN  CASE family = 0  -> opcode \notin {0, 224, 238}
          [] family = 8  -> (opcode % 16) \notin {0, 1, 2, 3, 4, 5, 6, 7, 14}
          [] family = 14 -> LowByte(opcode) \notin {158, 161}
          [] family = 15 -> LowByte(opcode) \notin {7, 10, 21, 24, 30, 41, 51, 85, 101}
          [] OTHER       -> FALSE

(***************************************************************************)
(* The instruction handlers.  Each takes the CPU value and gives the CPU   *)
(* value after it.  A register operand is 0..15 (V0..VF), Reg_I or Reg_PC. *)
(***************************************************************************)
\* the `match register { V0..VF => self.registers.Vn, _ => 0 }` of the
\* handlers that read all sixteen general registers
ReadV(self, register) ==
    IF register \in 0..15 THEN self.registers.V[register] ELSE 0

\* the same match without the VF arm (SUBX, SETD, SETS)
ReadV0E(self, register) ==
    IF register \in 0..14 THEN self.registers.V[register] ELSE 0

\* `match register1 { V0..VF => self.registers.Vn = value, _ => () }`
WriteV(self, register, value) ==
    IF register \in 0..15
    THEN [self EXCEPT !.registers.V[register] = value]
    ELSE self

\* Return that takes the oldest address of the stack, not the newest
Return_first(self) ==
    IF self.stack = <<>>
    THEN Panic(self)
    ELSE [self EXCEPT !.registers.PC = self.stack[1],
                      !.stack = SubSeq(self.stack, 2, Len(self.stack))]

Return(self) ==
    IF self.stack = <<>>
    THEN Panic(self)
    ELSE [self EXCEPT !.registers.PC = self.stack[Len(self.stack)],
                      !.stack = SubSeq(self.stack, 1, Len(self.stack) - 1)]

\* JUMP that leaves a return address on the stack
JUMP_link(self, address) ==
    [self EXCEPT !.stack = Append(self.stack, self.registers.PC),
                 !.registers.PC = address]

JUMP(self, address) == [self EXCEPT !.registers.PC = address]

\* Call that also spills the low byte of the return address into memory
Call_spill(self, address) ==
    [self EXCEPT !.stack = Append(self.stack, self.registers.PC),
                 !.registers.PC = address,
                 !.memory[0] = self.registers.PC % U8]

Call(self, address) ==
    [self EXCEPT !.stack = Append(self.stack, self.registers.PC),
                 !.registers.PC = address]

SKEQ(self, register, value, checks) ==
    LET comp_val == CASE register \in 0..15 -> self.registers.V[register] = value
                      [] register = Reg_I   -> self.registers.I = value
                      [] OTHER              -> self.registers.PC = value
    IN  IF comp_val THEN SetPC(self, self.registers.PC + 2, checks) ELSE self

\* SKNEQ whose skip advances PC by one byte, not by one word
SKNEQ_byte(self, register, value, checks) ==
    LET comp_val == CASE register \in 0..15 -> self.registers.V[register] # value
                      [] register = Reg_I   -> self.registers.I # value
                      [] OTHER              -> self.registers.PC # value
    IN  IF comp_val THEN SetPC(self, self.registers.PC + 1, checks) ELSE self

SKNEQ(self, register, value, checks) ==
    LET comp_val == CASE register \in 0..15 -> self.registers.V[register] # value
                      [] register = Reg_I   -> self.registers.I # value
                      [] OTHER              -> self.registers.PC # value
    IN  IF comp_val THEN SetPC(self, self.registers.PC + 2, checks) ELSE self

SKREQ(self, register1, register2, checks) ==
    LET r1 == ReadV(self, register1)
        r2 == ReadV(self, register2)
    IN  IF r1 = r2 THEN SetPC(self, self.registers.PC + 2, checks) ELSE self

\* SET whose arm for VA writes V9 (a slip among the sixteen copied arms)
SET_slip(self, register, value) ==
    CASE register = 10      -> [self EXCEPT !.registers.V[9] = value]
      [] register \in 0..15 -> [self EXCEPT !.registers.V[register] = value]
      [] register = Reg_I   -> [self EXCEPT !.registers.I = value]
      [] OTHER              -> [self EXCEPT !.registers.PC = value]

SET(self, register, value) ==
    CASE register \in 0..15 -> [self EXCEPT !.registers.V[register] = value]
      [] register = Reg_I   -> [self EXCEPT !.registers.I = value]
      [] OTHER              -> [self EXCEPT !.registers.PC = value]

\* ADD with saturating_add in place of wrapping_add
ADD_saturating(self, register, value, checks) ==
    CASE register \in 0..15 ->
           [self EXCEPT !.registers.V[register] =
                IF self.registers.V[register] + value >= U8 THEN U8 - 1
                ELSE self.registers.V[register] + value]
      [] register = Reg_I   -> SetI(self, self.registers.I + value, checks)
      [] OTHER              -> SetPC(self, self.registers.PC + value, checks)

\* ADD that raises VF on a carry, as ADDR does
ADD_carry(self, register, value, checks) ==
    CASE register \in 0..15 ->
           LET sum == self.registers.V[register] + value
               stored == [self EXCEPT !.registers.V[register] = sum % U8]
           IN  IF sum >= U8 THEN [stored EXCEPT !.registers.V[15] = 1] ELSE stored
      [] register = Reg_I   -> SetI(self, self.registers.I + value, checks)
      [] OTHER              -> SetPC(self, self.registers.PC + value, checks)

ADD(self, register, value, checks) ==
    CASE register \in 0..15 ->
           [self EXCEPT !.registers.V[register] =
                            (self.registers.V[register] + value) % U8]
      [] register = Reg_I   -> SetI(self, self.registers.I + value, checks)
      [] OTHER              -> SetPC(self, self.registers.PC + value, checks)

\* OR that also clears VF, as the first CHIP-8 interpreter did
OR_clears(self, register1, register2) ==
    WriteV([self EXCEPT !.registers.V[15] = 0], register1,
           BitOr(ReadV(self, register1), ReadV(self, register2)))

COPYR(self, register1, register2) ==
    WriteV(self, register1, ReadV(self, register2))

OR(self, register1, register2) ==
    WriteV(self, register1, BitOr(ReadV(self, register1), ReadV(self, register2)))

AND(self, register1, register2) ==
    WriteV(self, register1, BitAnd(ReadV(self, register1), ReadV(self, register2)))

XOR(self, register1, register2) ==
    WriteV(self, register1, BitXor(ReadV(self, register1), ReadV(self, register2)))

\* overflowing_add / overflowing_sub on u8: the wrapped value and the flag
\* overflowing_add that gives the sum as it is
overflowing_add_exact(a, b) == [value |-> a + b, flag |-> a + b >= U8]

overflowing_add(a, b) == [value |-> (a + b) % U8, flag |-> a + b >= U8]

overflowing_sub(a, b) == [value |-> (a - b + U8) % U8, flag |-> a < b]

\* the arm of ADDR and SUBX for V0..VE: the value into the register, then VF
\* to 1 when the flag is up; no arm for VF, I or PC
WriteWithFlag(self, register1, res) ==
    IF register1 \in 0..14
    THEN LET stored == [self EXCEPT !.registers.V[register1] = res.value]
         IN  IF res.flag THEN [stored EXCEPT !.registers.V[15] = 1] ELSE stored
    ELSE self

\* ADDR that writes the flag into VF on both branches (0 without a carry)
ADDR_clears(self, register1, register2) ==
    LET res == overflowing_add(ReadV(self, register1), ReadV(self, register2))
    IN  IF register1 \in 0..14
        THEN [self EXCEPT !.registers.V[register1] = res.value,
                          !.registers.V[15] = IF res.flag THEN 1 ELSE 0]
        ELSE self

ADDR(self, register1, register2) ==
    LET r2 == ReadV(self, register2)
    IN  WriteWithFlag(self, register1, overflowing_add(ReadV(self, register1), r2))

\* SUBX that writes the flag into VF on both branches (0 without a borrow)
SUBX_clears(self, register1, register2) ==
    LET res == overflowing_sub(ReadV(self, register1), ReadV0E(self, register2))
    IN  IF register1 \in 0..14
        THEN [self EXCEPT !.registers.V[register1] = res.value,
                          !.registers.V[15] = IF res.flag THEN 1 ELSE 0]
        ELSE self

SUBX(self, register1, register2) ==
    LET r2 == ReadV0E(self, register2)
    IN  WriteWithFlag(self, register1, overflowing_sub(ReadV(self, register1), r2))

\* SKRNEQ with the comparison of SKREQ
SKRNEQ_equal(self, register1, register2, checks) ==
    LET r1 == ReadV(self, register1)
        r2 == ReadV(self, register2)
    IN  IF r1 = r2 THEN SetPC(self, self.registers.PC + 2, checks) ELSE self

SKRNEQ(self, register1, register2, checks) ==
    LET r1 == ReadV(self, register1)
        r2 == ReadV(self, register2)
    IN  IF r1 # r2 THEN SetPC(self, self.registers.PC + 2, checks) ELSE self

\* SETI that writes PC (the neighbouring field) instead of I
SETI_pc(self, value) == [self EXCEPT !.registers.PC = value]

SETI(self, value) == [self EXCEPT !.registers.I = value]

\* RAND that sets the bits of the mask instead of keeping only them
RAND_or(self, register, value, number) == SET(self, register, BitOr(number, value))

\* number is the byte random() gave
RAND(self, register, value, number) == SET(self, register, BitAnd(number, value))

\* SETXD that copies the wrong way: the register into the delay timer
SETXD_reversed(self, register) ==
    IF register \in 0..14
    THEN [self EXCEPT !.timers.delay = self.registers.V[register]]
    ELSE self

SETXD(self, register) ==
    IF register \in 0..14
    THEN [self EXCEPT !.registers.V[register] = self.timers.delay]
    ELSE self

SETD(self, register) == [self EXCEPT !.timers.delay = ReadV0E(self, register)]

SETS(self, register) == [self EXCEPT !.timers.sound = ReadV0E(self, register)]

\* ADDI that keeps I within 12 bits
ADDI_masked(self, register, checks) ==
    IF register \in 0..15
    THEN [self EXCEPT !.registers.I =
             (self.registers.I + self.registers.V[register]) % MemSize]
    ELSE self

ADDI(self, register, checks) ==
    CASE register \in 0..15 ->
           SetI(self, self.registers.I + self.registers.V[register], checks)
      [] register = Reg_I   -> SetI(self, self.registers.I + self.registers.I, checks)
      [] OTHER              -> SetI(self, self.registers.I + self.registers.PC, checks)

\* the handlers whose body is a TODO comment: _Call, Display, SHFTR, SUBY,
\* SHFTL, JMP0, DRAW, SKKEQ, SKKNEQ, STORE, SPRITE, BCD, DUMP, LOAD
Unimplemented == {"_Call", "Display", "SHFTR", "SUBY", "SHFTL", "JMP0", "DRAW",
                  "SKKEQ", "SKKNEQ", "STORE", "SPRITE", "BCD", "DUMP", "LOAD"}

(***************************************************************************)
(* CPU::execute.  number is the byte random() gives to RAND; checks says   *)
(* whether the build checks arithmetic overflow.                           *)
(***************************************************************************)
execute(self, i, number, checks) ==
    CASE i.op = "NOP"    -> self
      [] i.op = "Return" -> Return(self)
      [] i.op = "JUMP"   -> JUMP(self, i.address)
      [] i.op = "Call"   -> Call(self, i.address)
      [] i.op = "SKEQ"   -> SKEQ(self, i.register, i.value, checks)
      [] i.op = "SKNEQ"  -> SKNEQ(self, i.register, i.value, checks)
      [] i.op = "SKREQ"  -> SKREQ(self, i.register1, i.register2, checks)
      [] i.op = "SET"    -> SET(self, i.register, i.value)
      [] i.op = "ADD"    -> ADD(self, i.register, i.value, checks)
      [] i.op = "COPYR"  -> COPYR(self, i.register1, i.register2)
      [] i.op = "OR"     -> OR(self, i.register1, i.register2)
      [] i.op = "AND"    -> AND(self, i.register1, i.register2)
      [] i.op = "XOR"    -> XOR(self, i.register1, i.register2)
      [] i.op = "ADDR"   -> ADDR(self, i.register1, i.register2)
      [] i.op = "SUBX"   -> SUBX(self, i.register1, i.register2)
      [] i.op = "SKRNEQ" -> SKRNEQ(self, i.register1, i.register2, checks)
      [] i.op = "SETI"   -> SETI(self, i.value)
      [] i.op = "RAND"   -> RAND(self, i.register, i.value, number)
      [] i.op = "SETXD"  -> SETXD(self, i.register)
      [] i.op = "SETD"   -> SETD(self, i.register)
      [] i.op = "SETS"   -> SETS(self, i.register)
      [] i.op = "ADDI"   -> ADDI(self, i.register, checks)
      [] i.op \in Unimplemented -> self
      [] OTHER           -> self

(***************************************************************************)
(* The machine: the four fields of the CPU struct, and around them what    *)
(* the caller (main, debug_loop) holds: whether the process runs, whether  *)
(* a program is loaded, and a record of the last cycles for the claims.    *)
(***************************************************************************)
VARIABLES
    registers,  \* CPU.registers: [V: V0..VF, I, PC]
    memory,     \* CPU.memory
    stack,      \* CPU.stack
    timers,     \* CPU.timers: [delay, sound]
    status,     \* "running", "panicked" (a panic aborted the process), "exited"
    loaded,     \* load_rom has returned Ok since new / initialize
    ncycles,    \* cycles run since the program was loaded
    log,        \* the last two cycles, oldest first
    image,      \* the bytes fs::read gave the last load_rom (<<>>: none)
    ticks,      \* sixtieths of a second gone by while the machine ran
    twin        \* a second CPU run beside this one (<<>>: none)

vars == <<registers, memory, stack, timers, status, loaded, ncycles, log, image,
          ticks, twin>>

Self ==
    [registers |-> registers, memory |-> memory, stack |-> stack,
     timers |-> timers, panicked |-> status = "panicked"]

Put(cpu) ==
    /\ registers' = cpu.registers
    /\ memory' = cpu.memory
    /\ stack' = cpu.stack
    /\ timers' = cpu.timers
    /\ status' = IF cpu.panicked THEN "panicked" ELSE "running"

\* what a cycle leaves in the log: the word fetched, the instruction decoded,
\* the byte random() gave, the registers, stack and timers before the fetch,
\* whether parse_opcode printed "Unexpected opcode", whether memory is after
\* the cycle what it was before it, how the cycle ended, and the addresses of
\* the Calls run since the load that no Return has answered yet (oldest first);
\* net is the number of Calls less the number of Returns completed since the load
Entry(opcode, ins, number, cpu) ==
    LET before == IF log = <<>> THEN <<>> ELSE log[Len(log)].sites
        net == IF log = <<>> THEN 0 ELSE log[Len(log)].net
    IN  [opcode |-> opcode, ins |-> ins, number |-> number,
         pre |-> [registers |-> registers, stack |-> stack, timers |-> timers],
         unexpected |-> parse_opcode_unexpected(opcode),
         memory_kept |-> cpu.memory = memory,
         outcome |-> IF cpu.panicked THEN "panic" ELSE "ok",
         net |-> CASE ins.op = "Call" /\ ~cpu.panicked -> net + 1
                   [] ins.op = "Return" /\ ~cpu.panicked -> net - 1
                   [] OTHER -> net,
         sites |-> CASE ins.op = "Call" -> Append(before, registers.PC)
                     [] ins.op = "Return" /\ before # <<>> ->
                          SubSeq(before, 1, Len(before) - 1)
                     [] OTHER -> before]

Logged(e) == IF Len(log) < 2 THEN Append(log, e) ELSE <<log[2], e>>

(***************************************************************************)
(* Program images.                                                         *)
(***************************************************************************)
\* the bytes of a sequence of instruction words, high byte first
Bytes(ws) ==
    [i \in 1..(2 * Len(ws)) |->
        IF i % 2 = 1 THEN ws[(i + 1) \div 2] \div 256 ELSE ws[i \div 2] % 256]

\* the word with family f and the nibbles x, y, n
Enc(f, x, y, n) == f * 4096 + x * 256 + y * 16 + n
\* the word with family f, register x and low byte nn
EncB(f, x, nn) == f * 4096 + x * 256 + nn

\* bytes random() gives, values of immediates, register pairs
RandomBytes == {0, 1, 128, 255}
ByteSample == {0, 1, 255}
RegSample == {0, 7, 14, 15}

\* Call(0x300) at 0x200 and Return at 0x300
CallReturnRom ==
    [i \in 1..258 |-> CASE i = 1   -> 35
                        [] i = 258 -> 238
                        [] OTHER   -> 0]

\* Return first; Call to itself; Call then Return right behind it;
\* Jump to 0xFFF, where the second byte of the word is past the memory
ControlRoms == {CallReturnRom, Bytes(<<238>>), Bytes(<<8704>>),
                Bytes(<<8706, 238>>), Bytes(<<8191>>)}

\* words no arm of parse_opcode matches
UnexpectedWords == {32776, 32783, 57344, 57503, 61440, 61695}

UnexpectedRoms == {Bytes(<<EncB(6, 3, 9), w>>) : w \in UnexpectedWords}

\* Vx := random; then 3XNN / 4XNN
SkipImmRoms ==
    {Bytes(<<EncB(12, x, 255), EncB(f, x, nn)>>) :
        f \in {3, 4}, x \in 0..15, nn \in ByteSample}

\* Vx := random; Vy := random; then 5XY0 / 9XY0
SkipRegRoms ==
    {Bytes(<<EncB(12, x, 255), EncB(12, y, 255), Enc(f, x, y, 0)>>) :
        f \in {5, 9}, x \in RegSample, y \in RegSample}

\* VF := 7; Vx := random; Vy := random; then 8XY4 / 8XY5
ArithRoms ==
    {Bytes(<<EncB(6, 15, 7), EncB(12, x, 255), EncB(12, y, 255), Enc(8, x, y, n)>>) :
        n \in {4, 5}, x \in RegSample, y \in RegSample}

\* VF := 7; Vx := random; Vx += b; Vx += 256 - b
AddImmRoms ==
    {Bytes(<<EncB(6, 15, 7), EncB(12, x, 255), EncB(7, x, b), EncB(7, x, (U8 - b) % U8)>>) :
        x \in 0..15, b \in ByteSample \cup {128}}

\* I := 0x123; the register after Vx := random; then 6XNN
SetRoms ==
    {Bytes(<<2560 * 16 + 291, EncB(12, (x + 1) % 16, 255), EncB(6, x, nn)>>) :
        x \in 0..15, nn \in {0, 60, 255}}

\* an image of n bytes: Jump(0x200), then non-zero data
Image(n) ==
    [i \in 1..n |-> CASE i = 1 -> 18
                      [] i = 2 -> 0
                      [] OTHER -> (i % 255) + 1]

\* the largest image that fits behind 0x200, and one byte more
SizeRoms == {Image(MemSize - ProgramStart), Image(MemSize - ProgramStart + 1)}

\* Jump to 0xFFE, the last word of memory; Jump to the odd address 0x201
EdgeRoms == {Bytes(<<8190>>), Bytes(<<4609>>)}

\* V0 := random; then BNNN
JumpV0Roms == {Bytes(<<EncB(12, 0, 255), 11 * 4096 + nnn>>) : nnn \in {0, 768, 4095}}

\* FX0A; then Vx := 1
KeyRoms == {Bytes(<<EncB(15, x, 10), EncB(6, x, 1)>>) : x \in RegSample}

Roms == ControlRoms \cup UnexpectedRoms \cup SkipImmRoms \cup SkipRegRoms
          \cup ArithRoms \cup AddImmRoms \cup SetRoms \cup SizeRoms
          \cup EdgeRoms \cup JumpV0Roms \cup KeyRoms

(***************************************************************************)
(* The state after CPU::new().                                             *)
(***************************************************************************)
New ==
    /\ registers = CPU_new.registers
    /\ memory = CPU_new.memory
    /\ stack = CPU_new.stack
    /\ timers = CPU_new.timers
    /\ status = "running"
    /\ loaded = FALSE
    /\ ncycles = 0
    /\ log = <<>>
    /\ image = <<>>
    /\ ticks = 0

Init == New /\ twin = <<>>

(***************************************************************************)
(* main: load_rom(&input) on the new machine, the file read giving x.      *)
(***************************************************************************)
Loading(x) ==
    /\ status = "running"
    /\ ~loaded
    /\ Put(load_rom(Self, x))
    /\ loaded' = (Len(x) <= MemSize - ProgramStart)
    /\ ncycles' = 0
    /\ log' = <<>>
    /\ image' = x
    /\ UNCHANGED ticks

LoadRom(x) == Loading(x) /\ UNCHANGED twin

\* fs::read fails: load_rom returns Err, main prints and returns
ReadError ==
    /\ status = "running"
    /\ ~loaded
    /\ status' = "exited"
    /\ UNCHANGED <<registers, memory, stack, timers, loaded, ncycles, log, image,
                   ticks, twin>>

Initialize ==
    /\ status = "running"
    /\ Put(initialize(Self))
    /\ loaded' = FALSE
    /\ ncycles' = 0
    /\ log' = <<>>
    /\ image' = <<>>
    /\ UNCHANGED <<ticks, twin>>

(***************************************************************************)
(* CPU::cycle: fetch, parse, execute.  A panic in the fetch ends the cycle *)
(* there.  number is the byte random() gives if the instruction draws one, *)
(* checks whether the build checks arithmetic overflow.                    *)
(***************************************************************************)
\* cycle whose random byte depends on state outside the CPU value: a
\* generator shared by the process, moved on by every cycle run in it
cycle_shared(self, number, checks) ==
    LET f == fetch_instruction(self)
    IN  IF f.cpu.panicked
        THEN f.cpu
        ELSE execute(f.cpu, parse_opcode(f.opcode), (number + ncycles) % U8, checks)

cycle(self, number, checks) ==
    LET f == fetch_instruction(self)
    IN  IF f.cpu.panicked
        THEN f.cpu
        ELSE execute(f.cpu, parse_opcode(f.opcode), number, checks)

\* the bytes random() may give in the cycle about to run: it is called by
\* RAND only
Numbers ==
    LET f == fetch_instruction(Self)
    IN  IF ~f.cpu.panicked /\ parse_opcode(f.opcode).op = "RAND"
        THEN RandomBytes ELSE {0}

\* one cycle of the machine (debug_cycle is cycle with two prints)
Cycling(cap, number, checks) ==
    /\ status = "running"
    /\ loaded
    /\ ncycles < cap
    /\ LET f == fetch_instruction(Self)
           instruction == IF f.cpu.panicked THEN [op |-> "none"]
                          ELSE parse_opcode(f.opcode)
           cpu == cycle(Self, number, checks)
       IN  /\ Put(cpu)
           /\ log' = Logged(Entry(f.opcode, instruction, number, cpu))
    /\ ncycles' = ncycles + 1
    /\ UNCHANGED <<loaded, image, ticks>>

Cycle(cap) ==
    \E number \in Numbers, checks \in BOOLEAN :
        Cycling(cap, number, checks) /\ UNCHANGED twin

Load == \E x \in Roms : LoadRom(x)

Step == Cycle(MaxCycles)

Next == Load \/ ReadError \/ Initialize \/ Step

Spec == Init /\ [][Next]_vars

(***************************************************************************)
(* The machine on programs that set the timers.  The timers survive        *)
(* initialize, so a program loaded after it starts with the timers the     *)
(* program before it left.                                                 *)
(***************************************************************************)
\* one word of every instruction that is not FX15 or FX18, and three words no
\* arm of parse_opcode matches
OtherWords ==
    {0, 224, 238, 291, 4864, 8960, 12297, 16393, 20496, 24837, 28933,
     33040, 33041, 33042, 33043, 33044, 33045, 33046, 33047, 33054, 32776,
     36880, 41251, 45824, 49663, 53539, 57758, 57761, 57344,
     61703, 61706, 61726, 61737, 61747, 61781, 61797}

\* the words FX07 that follow the timer instructions of register x
DelayReads(x) == {EncB(15, y, 7) : y \in {x, 1, 15}}

\* Vx := 9; delay := Vx; sound := Vx; then one more word
TimerRoms ==
    {Bytes(<<EncB(6, x, 9), EncB(15, x, 21), EncB(15, x, 24), w>>) :
        x \in {0}, w \in OtherWords}
    \cup UNION {{Bytes(<<EncB(6, x, 9), EncB(15, x, 21), EncB(15, x, 24), w>>) :
                    w \in DelayReads(x)} : x \in {0, 14, 15}}

LoadTimers == \E x \in TimerRoms : LoadRom(x)

NextTimers == LoadTimers \/ Initialize \/ Step

SpecTimers == Init /\ [][NextTimers]_vars

(***************************************************************************)
(* The machine on programs of register, index and memory instructions.     *)
(***************************************************************************)
\* VF := 7; Vx := random; Vy := random; then 8XY0 / 8XY1 / 8XY2 / 8XY3
LogicRoms ==
    {Bytes(<<EncB(6, 15, 7), EncB(12, x, 255), EncB(12, y, 255), Enc(8, x, y, k)>>) :
        x \in {0, 7, 15}, y \in {0, 7, 15}, k \in 0..3}

\* I := NNN; Vx := random; then FX1E
IndexRoms ==
    {Bytes(<<10 * 4096 + nnn, EncB(12, x, 255), EncB(15, x, 30)>>) :
        nnn \in {291, 4095}, x \in RegSample}

\* Vx := random; then 8XX6 / 8XXE
ShiftRoms ==
    {Bytes(<<EncB(12, x, 255), Enc(8, x, x, k)>>) : x \in {0, 7}, k \in {6, 14}}

\* one word of family 0: 00E0, 00EE, 0123, 0FFF (0000 follows each)
ZeroRoms == {Bytes(<<w>>) : w \in {224, 238, 291, 4095}}

\* VF := 7; then CXNN
MaskRoms ==
    {Bytes(<<EncB(6, 15, 7), EncB(12, x, mask)>>) :
        x \in RegSample, mask \in {0, 15, 165, 255}}

\* V0 := 7; FX55; V0 := 0; FX65 (I is 0), for x = 0; likewise with V1 for x = 1
DumpRoms ==
    {Bytes(<<EncB(6, x, 7), EncB(15, x, 85), EncB(6, x, 0), EncB(15, x, 101)>>) :
        x \in {0, 1}}

\* V0 := random; V7 := random; then 5XYn / 9XYn with a low nibble that is not 0
SkipLowRoms ==
    {Bytes(<<EncB(12, 0, 255), EncB(12, 7, 255), Enc(f, 0, 7, n)>>) :
        f \in {5, 9}, n \in {1, 15}}

AluRoms == LogicRoms \cup IndexRoms \cup ShiftRoms \cup ZeroRoms \cup MaskRoms
             \cup DumpRoms \cup SkipLowRoms

LoadAlu == \E x \in AluRoms : LoadRom(x)

NextAlu == LoadAlu \/ Step

SpecAlu == Init /\ [][NextAlu]_vars

(***************************************************************************)
(* Long runs.                                                              *)
(***************************************************************************)
\* I := 0xFFF; V0 := 0xFF; then FX1E with x = 0, 242 times
IndexSumRom == Bytes(<<45055, 24831>> \o [i \in 1..242 |-> 61470])

\* Calls from 0x200 and 0x204 and a Return behind each;
\* Calls from 0x200, 0x204 and 0x208 and a Return behind each
NestRoms ==
    {Bytes(<<8708, 238, 8710, 238>>),
     Bytes(<<8708, 238, 8712, 238, 8714, 238>>)}

LongRoms == {IndexSumRom} \cup NestRoms

LoadLong == \E x \in LongRoms : LoadRom(x)

StepLong == Cycle(MaxLong)

NextLong == LoadLong \/ StepLong

SpecLong == Init /\ [][NextLong]_vars

(***************************************************************************)
(* load_rom called again on a machine that has run: load_rom is a method   *)
(* of the CPU and takes the machine as it is.  Each further image is       *)
(* shorter than the one before it, so that bytes of the longer one stay    *)
(* behind it in memory.                                                    *)
(***************************************************************************)
\* V0 := random, delay := V0, I := 0x123, Call 0x206;  V1 := 3, sound := V1;
\* Return
ReloadRoms == {Bytes(<<49407, 61461, 41251, 8710>>), Bytes(<<24835, 61720>>),
               Bytes(<<238>>)}

Reload(x) ==
    /\ status = "running"
    /\ loaded
    /\ Len(x) < Len(image)
    /\ Put(load_rom(Self, x))
    /\ loaded' = TRUE
    /\ ncycles' = 0
    /\ log' = <<>>
    /\ image' = x
    /\ UNCHANGED <<ticks, twin>>

LoadFirst == \E x \in ReloadRoms : LoadRom(x)

LoadAgain == \E x \in ReloadRoms : Reload(x)

NextReload == LoadFirst \/ LoadAgain \/ Step

SpecReload == Init /\ [][NextReload]_vars

(***************************************************************************)
(* Two CPUs side by side: the twin is created and loaded as the first, and *)
(* after each cycle of the first it runs one cycle, built the same way     *)
(* (checks) and given the byte the first one's random() gave.              *)
(***************************************************************************)
\* random, random & 0x0F, ADDR, SKEQ; random, SKNEQ, Call, Return
PairRoms ==
    {Bytes(<<EncB(12, 0, 255), EncB(12, 1, 15), Enc(8, 0, 1, 4), EncB(3, 0, 1)>>),
     Bytes(<<EncB(12, 0, 255), EncB(4, 0, 0), 8704, 238>>)}

InitPair ==
    /\ New
    /\ twin = [cpu |-> CPU_new, behind |-> FALSE, number |-> 0, checks |-> FALSE]

LoadPair(x) ==
    /\ ~twin.behind
    /\ Loading(x)
    /\ twin' = [twin EXCEPT !.cpu = load_rom(twin.cpu, x)]

LoadPairs == \E x \in PairRoms : LoadPair(x)

CycleFirst ==
    /\ ~twin.behind
    /\ \E number \in Numbers, checks \in BOOLEAN :
          /\ Cycling(MaxCycles, number, checks)
          /\ twin' = [twin EXCEPT !.behind = TRUE, !.number = number,
                                  !.checks = checks]

CycleTwin ==
    /\ twin.behind
    /\ twin' = [cpu |-> cycle(twin.cpu, twin.number, twin.checks),
                behind |-> FALSE, number |-> 0, checks |-> FALSE]
    /\ UNCHANGED <<registers, memory, stack, timers, status, loaded, ncycles,
                   log, image, ticks>>

NextPair == LoadPairs \/ CycleFirst \/ CycleTwin

SpecPair == InitPair /\ [][NextPair]_vars

(***************************************************************************)
(* The timers are specified to count down at 60 Hz.  The code has nothing  *)
(* that runs when a sixtieth of a second has gone by (struct Timers: "TODO:*)
(* Implement their automatic decrement"; debug_loop only runs cycles), so  *)
(* the tick changes no field of the CPU: only the count of ticks records   *)
(* that it came.                                                           *)
(***************************************************************************)
Tick ==
    /\ status = "running"
    /\ ticks < MaxTicks
    /\ ticks' = ticks + 1
    /\ UNCHANGED <<registers, memory, stack, timers, status, loaded, ncycles,
                   log, image, twin>>

NextTick == LoadTimers \/ Step \/ Tick

SpecTick == Init /\ [][NextTick]_vars

(***************************************************************************)
(* The claims.  Last is the cycle that led to the current state; its       *)
(* operands are read from the word fetched.                                *)
(***************************************************************************)
HasLast == log # <<>>
Last == log[Len(log)]
Family(e) == e.opcode \div 4096
X(e) == (e.opcode \div 256) % 16
Y(e) == (e.opcode \div 16) % 16
NN(e) == e.opcode % 256
NNN(e) == e.opcode % 4096
\* the cycle fetched a word and ran to its end
Completed(e) == e.ins.op # "none" /\ e.outcome = "ok"

\* C1: on a fresh machine with PC = 0x200, a cycle that fetches Call(0x300)
\* and then a cycle that executes Return leave PC = 0x202 and the stack
\* depth at 0.
C1_CallReturn ==
    (/\ Len(log) = 2
     /\ log[1].opcode = 8960
     /\ log[1].pre.registers = [Registers_new EXCEPT !.PC = 512]
     /\ log[1].pre.stack = CPU_new.stack
     /\ log[2].opcode = 238)
    => (registers.PC = 514 /\ Len(stack) = 0)

\* C2: Return with no Call outstanding (the first instruction on a new
\* machine) ends in the error StackUnderflow: the process runs on, the stack
\* is as it was and PC holds no popped value (it stays behind the fetch).
C2_ReturnUnderflow ==
    (/\ HasLast
     /\ Last.opcode = 238
     /\ Last.pre.stack = CPU_new.stack
     /\ ncycles = 1)
    => (/\ Last.outcome = "StackUnderflow"
        /\ status = "running"
        /\ stack = Last.pre.stack
        /\ registers.PC = Last.pre.registers.PC + 2)

\* C3: the stack never holds more than 16 return addresses.
C3_StackBound == Len(stack) <= 16

\* C4: a Call with 16 return addresses on the stack fails with
\* StackOverflow: nothing is pushed and PC is not the call target.
C4_CallOverflow ==
    (/\ HasLast
     /\ Family(Last) = 2
     /\ Len(Last.pre.stack) = 16)
    => (/\ Last.outcome = "StackOverflow"
        /\ stack = Last.pre.stack
        /\ registers.PC = Last.pre.registers.PC + 2)

\* the words with no defined pattern: 8XYn with n not in 0..7, E; EXNN with
\* NN not 9E, A1; FXNN with NN not one of the nine low bytes
NoPattern(opcode) ==
    LET f == opcode \div 4096
    IN  \/ f = 8 /\ (opcode % 16) \notin {0, 1, 2, 3, 4, 5, 6, 7, 14}
        \/ f = 14 /\ (opcode % 256) \notin {158, 161}
        \/ f = 15 /\ (opcode % 256) \notin {7, 10, 21, 24, 30, 41, 51, 85, 101}

\* C5: a cycle that fetches a word with no defined pattern reports the
\* word and executes nothing: PC is the fetch's, and the registers, the
\* stack and the timers are as before.
C5_DecodeFailure ==
    (HasLast /\ Last.ins.op # "none" /\ NoPattern(Last.opcode))
    => (/\ Last.unexpected
        /\ registers = [Last.pre.registers EXCEPT !.PC = Last.pre.registers.PC + 2]
        /\ stack = Last.pre.stack
        /\ timers = Last.pre.timers)

\* the condition of the skip instruction fetched, on the registers before
SkipCondition(e) ==
    LET v == e.pre.registers.V
    IN  CASE Family(e) = 3 -> v[X(e)] = NN(e)
          [] Family(e) = 4 -> v[X(e)] # NN(e)
          [] Family(e) = 5 -> v[X(e)] = v[Y(e)]
          [] Family(e) = 9 -> v[X(e)] # v[Y(e)]
          [] OTHER         -> FALSE

\* C6: a cycle of 3XNN, 4XNN, 5XY0 or 9XY0 advances PC by 4 from its value
\* before the fetch when the condition holds, and by 2 when it does not.
C6_SkipAdvance ==
    (HasLast /\ Completed(Last) /\ Family(Last) \in {3, 4, 5, 9})
    => registers.PC =
         Last.pre.registers.PC + (IF SkipCondition(Last) THEN 4 ELSE 2)

C6_Witness ==
    /\ HasLast /\ Completed(Last)
    /\ Family(Last) = 9 /\ X(Last) = 14 /\ Y(Last) = 15
    /\ Last.pre.registers.V[14] = 255 /\ Last.pre.registers.V[15] = 128
    /\ registers.PC = Last.pre.registers.PC + 4

\* C7: 8XY4 with x, y in 0..14 sets Vx to (Vx + Vy) mod 256; VF becomes 1
\* when the sum is above 255 and keeps its value otherwise.
C7_AddWithCarry ==
    (/\ HasLast /\ Completed(Last)
     /\ Family(Last) = 8 /\ Last.opcode % 16 = 4
     /\ X(Last) \in 0..14 /\ Y(Last) \in 0..14)
    => LET a == Last.pre.registers.V[X(Last)]
           b == Last.pre.registers.V[Y(Last)]
       IN  /\ registers.V[X(Last)] = (a + b) % 256
           /\ registers.V[15] = IF a + b > 255 THEN 1 ELSE Last.pre.registers.V[15]

C7_Witness ==
    /\ HasLast /\ Completed(Last)
    /\ Family(Last) = 8 /\ Last.opcode % 16 = 4
    /\ X(Last) = 0 /\ Y(Last) = 7
    /\ Last.pre.registers.V[0] = 1 /\ Last.pre.registers.V[7] = 1
    /\ Last.pre.registers.V[15] = 7
    /\ registers.V[0] = 2 /\ registers.V[15] = 7

\* C8: 8XY5 with x, y in 0..14 sets Vx to (Vx - Vy) mod 256; VF becomes 1
\* when Vx < Vy and keeps its value otherwise.
C8_SubWithBorrow ==
    (/\ HasLast /\ Completed(Last)
     /\ Family(Last) = 8 /\ Last.opcode % 16 = 5
     /\ X(Last) \in 0..14 /\ Y(Last) \in 0..14)
    => LET a == Last.pre.registers.V[X(Last)]
           b == Last.pre.registers.V[Y(Last)]
       IN  /\ registers.V[X(Last)] = (a - b) % 256
           /\ registers.V[15] = IF a < b THEN 1 ELSE Last.pre.registers.V[15]

C8_Witness ==
    /\ HasLast /\ Completed(Last)
    /\ Family(Last) = 8 /\ Last.opcode % 16 = 5
    /\ X(Last) = 0 /\ Y(Last) = 7
    /\ Last.pre.registers.V[0] = 0 /\ Last.pre.registers.V[7] = 1
    /\ Last.pre.registers.V[15] = 7
    /\ registers.V[0] = 255 /\ registers.V[15] = 1

\* the last two cycles were 7XNN with b and then 7XNN with (256 - b) mod 256
\* on the same register
AddThenComplement ==
    /\ Len(log) = 2
    /\ Completed(log[1]) /\ Completed(log[2])
    /\ Family(log[1]) = 7 /\ Family(log[2]) = 7
    /\ X(log[1]) = X(log[2])
    /\ NN(log[2]) = (256 - NN(log[1])) % 256

\* C9: Vx = a, then 7XNN with b, then 7XNN with (256 - b) mod 256 leave
\* Vx = a.
C9_AddClosure ==
    AddThenComplement => registers.V[X(log[2])] = log[1].pre.registers.V[X(log[1])]

C9_Witness ==
    /\ AddThenComplement
    /\ X(log[1]) = 3 /\ NN(log[1]) = 255
    /\ log[1].pre.registers.V[3] = 128
    /\ log[2].pre.registers.V[3] = 127
    /\ registers.V[3] = 128

\* C10: 7XNN with x other than 15 leaves VF as it was, also when Vx + NN is
\* above 255; of the registers, the stack and the timers only Vx changes
\* (and PC by the fetch).
C10_AddKeepsFlag ==
    (HasLast /\ Completed(Last) /\ Family(Last) = 7 /\ X(Last) # 15)
    => (/\ registers.V[15] = Last.pre.registers.V[15]
        /\ \A r \in 0..15 : r # X(Last) => registers.V[r] = Last.pre.registers.V[r]
        /\ registers.I = Last.pre.registers.I
        /\ registers.PC = Last.pre.registers.PC + 2
        /\ stack = Last.pre.stack
        /\ timers = Last.pre.timers)

C10_Witness ==
    /\ HasLast /\ Completed(Last) /\ Family(Last) = 7 /\ X(Last) = 14
    /\ Last.pre.registers.V[14] = 255 /\ NN(Last) = 255
    /\ registers.V[14] = 254
    /\ registers.V[15] = 7

\* C11: every word 6XNN decodes to SET of register x with value NN; the
\* cycle sets Vx to NN and leaves the other general registers, I, the stack,
\* memory and the timers as they were, and PC behind the word.
C11_SetImmediate ==
    /\ (status = "running" /\ ~loaded)
         => \A x \in 0..15, nn \in 0..255 :
               parse_opcode(EncB(6, x, nn)) = [op |-> "SET", register |-> x, value |-> nn]
    /\ (HasLast /\ Completed(Last) /\ Family(Last) = 6)
         => (/\ Last.ins = [op |-> "SET", register |-> X(Last), value |-> NN(Last)]
             /\ registers = [Last.pre.registers EXCEPT
                                !.V[X(Last)] = NN(Last),
                                !.PC = Last.pre.registers.PC + 2]
             /\ stack = Last.pre.stack
             /\ timers = Last.pre.timers
             /\ Last.memory_kept)

C11_Witness ==
    /\ HasLast /\ Completed(Last)
    /\ Last.opcode = 27196
    /\ Last.pre.registers.V[10] = 0 /\ Last.pre.registers.V[11] = 255
    /\ Last.pre.registers.I = 291
    /\ registers.V[10] = 60 /\ registers.V[11] = 255
    /\ registers.I = 291
    /\ registers.PC = Last.pre.registers.PC + 2

\* C12: loading an image of exactly 3584 bytes succeeds; an image of 3585
\* bytes or more is rejected before any memory cell is written, and the
\* process goes on running.
C12_ProgramTooLarge ==
    (image # <<>> /\ ncycles = 0)
      => IF Len(image) <= MemSize - ProgramStart
         THEN loaded /\ status = "running"
         ELSE ~loaded /\ status = "running" /\ memory = CPU_new.memory

\* C13: after a successful load of an image of n <= 3584 bytes, the cell
\* 0x200 + i holds byte i of the image for every i below n, and PC is 0x200.
C13_LoadPlacesImage ==
    (loaded /\ ncycles = 0)
      => (/\ Len(image) <= MemSize - ProgramStart
          /\ \A i \in 0..(Len(image) - 1) : memory[ProgramStart + i] = image[i + 1]
          /\ registers.PC = ProgramStart)

C13_Witness ==
    /\ loaded /\ ncycles = 0
    /\ Len(image) = MemSize - ProgramStart
    /\ memory[ProgramStart] = 18 /\ image[1] = 18
    /\ memory[MemSize - 1] = image[MemSize - ProgramStart]
    /\ memory[MemSize - 1] # 0
    /\ registers.PC = ProgramStart

\* C15 as stated: after every completed cycle PC is even and within 0..4095.
C15_PCAligned ==
    (HasLast /\ Completed(Last))
      => (registers.PC % 2 = 0 /\ registers.PC <= MemSize - 1)

\* PC and every stacked return address are even
AllEven(regs, stk) ==
    /\ regs.PC % 2 = 0
    /\ \A i \in 1..Len(stk) : stk[i] % 2 = 0

\* the cycle executed a Jump or a Call to an odd address
OddTarget(e) == e.ins.op \in {"JUMP", "Call"} /\ e.ins.address % 2 = 1

\* C15: after every completed cycle PC is at most 4098 (two words behind
\* the last word of memory); and a cycle that starts with PC and all stacked
\* return addresses even, and does not execute a Jump or Call to an odd
\* address, leaves PC and all stacked return addresses even.
C15_PCAlignedUnlessOddTarget ==
    (HasLast /\ Completed(Last))
      => (/\ registers.PC <= MemSize + 2
          /\ (AllEven(Last.pre.registers, Last.pre.stack) /\ ~OddTarget(Last))
               => AllEven(registers, stack))

\* the word at 0xFFE has run: PC is even and behind the memory
C15_Witness ==
    /\ HasLast /\ Completed(Last)
    /\ Last.pre.registers.PC = MemSize - 2
    /\ registers.PC = MemSize
    /\ AllEven(registers, stack)

\* C16: a cycle whose fetch would read outside memory (PC or PC + 1 above
\* 4095) ends in the error OutOfBoundsAccess and the process runs on.
C16_FetchOutOfBounds ==
    (HasLast /\ Last.pre.registers.PC + 1 > MemSize - 1)
      => (Last.outcome = "OutOfBoundsAccess" /\ status = "running")

\* C17: for every NNN and every value of V0, BNNN sets PC to NNN + V0.
C17_JumpWithOffset ==
    (HasLast /\ Completed(Last) /\ Family(Last) = 11)
      => registers.PC = NNN(Last) + Last.pre.registers.V[0]

\* C18: after FX0A the machine waits for a key: the next cycle fetches and
\* executes nothing, so it leaves PC and every register as they were.
C18_AwaitKey ==
    (/\ Len(log) = 2
     /\ Family(log[1]) = 15 /\ NN(log[1]) = 10
     /\ Completed(log[1]))
    => registers = log[2].pre.registers

\* C14: initialize, from any reachable state, leaves memory, all registers,
\* the stack and both timers as CPU::new creates them.
C14_InitializeAsNew ==
    (status = "running" /\ ~loaded)
      => (/\ registers = CPU_new.registers
          /\ memory = CPU_new.memory
          /\ stack = CPU_new.stack
          /\ timers = CPU_new.timers)

\* the cycle changed PC by the fetch only and nothing else but what is named
OnlyFetchAnd(regs, tmrs) ==
    /\ registers = [regs EXCEPT !.PC = Last.pre.registers.PC + 2]
    /\ timers = tmrs
    /\ stack = Last.pre.stack
    /\ Last.memory_kept

\* C19: for every x in 0..15, FX15 makes the delay timer equal to Vx, FX18
\* makes the sound timer equal to Vx and FX07 makes Vx equal to the delay
\* timer; each changes nothing else.
C19_TimerCopies ==
    (HasLast /\ Completed(Last) /\ Family(Last) = 15)
      => LET pre == Last.pre
             x == X(Last)
         IN  /\ NN(Last) = 21
                  => OnlyFetchAnd(pre.registers,
                                  [pre.timers EXCEPT !.delay = pre.registers.V[x]])
             /\ NN(Last) = 24
                  => OnlyFetchAnd(pre.registers,
                                  [pre.timers EXCEPT !.sound = pre.registers.V[x]])
             /\ NN(Last) = 7
                  => OnlyFetchAnd([pre.registers EXCEPT !.V[x] = pre.timers.delay],
                                  pre.timers)

\* C20: a cycle whose word is not FX15 or FX18 leaves both timers as they
\* were; FX15 leaves the sound timer and FX18 the delay timer as it was.
\* (The code has no timer tick.)
C20_TimersOnlySet ==
    HasLast
      => (/\ ~(Family(Last) = 15 /\ NN(Last) \in {21, 24})
               => timers = Last.pre.timers
          /\ (Family(Last) = 15 /\ NN(Last) = 21)
               => timers.sound = Last.pre.timers.sound
          /\ (Family(Last) = 15 /\ NN(Last) = 24)
               => timers.delay = Last.pre.timers.delay)

\* both timers run at 9 and ADD(V1, 5) has left them there
C20_Witness ==
    /\ HasLast /\ Completed(Last)
    /\ Last.opcode = 28933
    /\ Last.pre.timers = [delay |-> 9, sound |-> 9]
    /\ registers.V[1] = 5
    /\ timers = [delay |-> 9, sound |-> 9]

\* a timer one tick later: one less, and 0 stays 0
Decremented(t) == IF t = 0 THEN 0 ELSE t - 1

\* C21: a timer tick, at any point between cycles, takes 1 off each timer
\* that is not 0, leaves a timer that is 0 at 0, and changes no register,
\* stack or memory cell.
C21_TimerTick ==
    [][ticks' # ticks
         => (/\ timers' = [delay |-> Decremented(timers.delay),
                           sound |-> Decremented(timers.sound)]
             /\ UNCHANGED <<registers, stack, memory>>)]_vars

\* the positions of the bits that are 1 in a byte
Bits(v) == {k \in 0..7 : (v \div (2 ^ k)) % 2 = 1}

\* C22: for registers Vx, Vy: 8XY0 sets Vx to Vy, 8XY1 / 8XY2 / 8XY3 set Vx
\* to Vx | Vy, Vx & Vy, Vx ^ Vy; VF (unless x is 15) and every other
\* register stay as they were.
C22_CopyAndLogic ==
    (HasLast /\ Completed(Last) /\ Family(Last) = 8 /\ Last.opcode % 16 \in 0..3)
      => LET pre == Last.pre.registers
             x == X(Last)
             a == pre.V[x]
             b == pre.V[Y(Last)]
             k == Last.opcode % 16
         IN  /\ registers = [pre EXCEPT !.V[x] = registers.V[x], !.PC = pre.PC + 2]
             /\ registers.V[x] \in 0..255
             /\ k = 0 => registers.V[x] = b
             /\ k = 1 => Bits(registers.V[x]) = Bits(a) \cup Bits(b)
             /\ k = 2 => Bits(registers.V[x]) = Bits(a) \cap Bits(b)
             /\ k = 3 => Bits(registers.V[x]) = (Bits(a) \cup Bits(b)) \ (Bits(a) \cap Bits(b))

\* V0 := V0 | V7 with V0 = 1, V7 = 128 and VF = 7
C22_Witness ==
    /\ HasLast /\ Completed(Last)
    /\ Last.opcode = Enc(8, 0, 7, 1)
    /\ Last.pre.registers.V[0] = 1 /\ Last.pre.registers.V[7] = 128
    /\ registers.V[0] = 129 /\ registers.V[7] = 128
    /\ registers.V[15] = 7

\* C23: FX1E sets I to the exact sum I + Vx, not cut to 12 bits: from
\* I = 0xFFF and Vx = 1 it gives I = 0x1000.  Nothing else changes.
C23_AddToIndex ==
    (HasLast /\ Completed(Last) /\ Family(Last) = 15 /\ NN(Last) = 30)
      => LET pre == Last.pre.registers
         IN  /\ registers = [pre EXCEPT !.I = pre.I + pre.V[X(Last)],
                                        !.PC = pre.PC + 2]
             /\ (pre.I = 4095 /\ pre.V[X(Last)] = 1) => registers.I = 4096

C23_Witness ==
    /\ HasLast /\ Completed(Last)
    /\ Family(Last) = 15 /\ NN(Last) = 30
    /\ Last.pre.registers.I = 4095
    /\ Last.pre.registers.V[X(Last)] = 1
    /\ registers.I = 4096

\* C24: 8XY6 puts the lowest bit of the value in VF and leaves the value
\* shifted right by one in Vx; 8XYE puts the highest bit in VF and leaves the
\* value shifted left by one, cut to 8 bits, in Vx.  (Stated for y = x, where
\* the value shifted is Vx in every reading, and x below 15.)
C24_Shifts ==
    (/\ HasLast /\ Completed(Last)
     /\ Family(Last) = 8 /\ Last.opcode % 16 \in {6, 14}
     /\ X(Last) = Y(Last) /\ X(Last) # 15)
    => LET v == Last.pre.registers.V[X(Last)]
       IN  IF Last.opcode % 16 = 6
           THEN registers.V[X(Last)] = v \div 2 /\ registers.V[15] = v % 2
           ELSE registers.V[X(Last)] = (2 * v) % U8 /\ registers.V[15] = v \div 128

\* C25: in family 0 the whole word is matched: 0x00E0 decodes to Display
\* (clear screen), 0x00EE to Return, and every other word 0NNN, 0x0000
\* included, to the call of a native routine with the address NNN.
C25_FamilyZero ==
    (HasLast /\ Last.ins.op # "none" /\ Family(Last) = 0)
      => Last.ins = CASE Last.opcode = 224 -> [op |-> "Display"]
                      [] Last.opcode = 238 -> [op |-> "Return"]
                      [] OTHER -> [op |-> "_Call", address |-> NNN(Last)]

\* C27: CXNN sets Vx to r & NN, r being the byte of the random source: for
\* every r and mask the result has exactly the bits r and the mask share (so
\* none outside the mask; mask 0x00 gives 0, mask 0xFF gives r); no other
\* register, and nothing else but PC, changes.
C27_RandomMasked ==
    /\ (status = "running" /\ ~loaded)
         => \A r \in 0..255, mask \in 0..255 :
               LET v == RAND(Self, 0, mask, r).registers.V[0]
               IN  /\ v \in 0..255
                   /\ Bits(v) = Bits(r) \cap Bits(mask)
    /\ (HasLast /\ Completed(Last) /\ Family(Last) = 12)
         => LET pre == Last.pre.registers
                v == registers.V[X(Last)]
            IN  /\ registers = [pre EXCEPT !.V[X(Last)] = v, !.PC = pre.PC + 2]
                /\ v \in 0..255
                /\ Bits(v) = Bits(Last.number) \cap Bits(NN(Last))
                /\ NN(Last) = 0 => v = 0
                /\ NN(Last) = 255 => v = Last.number
                /\ stack = Last.pre.stack /\ timers = Last.pre.timers
                /\ Last.memory_kept

\* the source gives 0xFF, the mask is 0xA5, VF is 7 and stays
C27_Witness ==
    /\ HasLast /\ Completed(Last)
    /\ Last.opcode = EncB(12, 0, 165)
    /\ Last.number = 255
    /\ Last.pre.registers.V[15] = 7
    /\ registers.V[0] = 165
    /\ registers.V[15] = 7

\* C28: FX55 writes V0..Vx to memory[I], ..., memory[I + x] in ascending
\* order (so that FX65 with the same I can read them back).
C28_DumpRegisters ==
    (HasLast /\ Completed(Last) /\ Family(Last) = 15 /\ NN(Last) = 85)
      => \A k \in 0..X(Last) : memory[registers.I + k] = registers.V[k]

\* the words of the defined patterns (0NNN other than 00E0 and 00EE is C25's)
DefinedWord(w) ==
    LET f == w \div 4096
    IN  CASE f = 0        -> w \in {224, 238}
          [] f \in {5, 9} -> w % 16 = 0
          [] f = 8        -> w % 16 \in {0, 1, 2, 3, 4, 5, 6, 7, 14}
          [] f = 14       -> w % 256 \in {158, 161}
          [] f = 15       -> w % 256 \in {7, 10, 21, 24, 30, 41, 51, 85, 101}
          [] OTHER        -> TRUE

\* the table of variants, with the operands cut from their bit fields
TableEntry(w) ==
    LET f == w \div 4096
        first == (w \div 256) % 16      \* bits 11-8
        second == (w \div 16) % 16      \* bits 7-4
        immediate == w % 256            \* bits 7-0
        height == w % 16                \* bits 3-0
        address == w % 4096             \* bits 11-0
        two(name) == [op |-> name, register1 |-> first, register2 |-> second]
        imm(name) == [op |-> name, register |-> first, value |-> immediate]
        one(name) == [op |-> name, register |-> first]
    IN  CASE f = 0 -> [op |-> IF w = 224 THEN "Display" ELSE "Return"]
          [] f = 1 -> [op |-> "JUMP", address |-> address]
          [] f = 2 -> [op |-> "Call", address |-> address]
          [] f = 3 -> imm("SKEQ")
          [] f = 4 -> imm("SKNEQ")
          [] f = 5 -> two("SKREQ")
          [] f = 6 -> imm("SET")
          [] f = 7 -> imm("ADD")
          [] f = 8 -> two(CASE height = 0 -> "COPYR" [] height = 1 -> "OR"
                            [] height = 2 -> "AND"   [] height = 3 -> "XOR"
                            [] height = 4 -> "ADDR"  [] height = 5 -> "SUBX"
                            [] height = 6 -> "SHFTR" [] height = 7 -> "SUBY"
                            [] OTHER -> "SHFTL")
          [] f = 9 -> two("SKRNEQ")
          [] f = 10 -> [op |-> "SETI", value |-> address]
          [] f = 11 -> [op |-> "JMP0", address |-> address]
          [] f = 12 -> imm("RAND")
          [] f = 13 -> [op |-> "DRAW", register1 |-> first, register2 |-> second,
                        height |-> height]
          [] f = 14 -> one(IF immediate = 158 THEN "SKKEQ" ELSE "SKKNEQ")
          [] OTHER -> one(CASE immediate = 7 -> "SETXD"  [] immediate = 10 -> "STORE"
                            [] immediate = 21 -> "SETD"  [] immediate = 24 -> "SETS"
                            [] immediate = 30 -> "ADDI"  [] immediate = 41 -> "SPRITE"
                            [] immediate = 51 -> "BCD"   [] immediate = 85 -> "DUMP"
                            [] OTHER -> "LOAD")

RewritesPC ==
    {"SKEQ", "SKNEQ", "SKREQ", "SKRNEQ", "SKKEQ", "SKKNEQ",
     "JUMP", "JMP0", "Call", "Return"}

\* C30: a cycle whose decoded instruction is not a skip, Jump, JumpPlusV0,
\* Call or Return leaves PC at its value before the fetch plus 2.
C30_AdvanceByTwo ==
    (HasLast /\ Completed(Last) /\ Last.ins.op \notin RewritesPC)
      => registers.PC = Last.pre.registers.PC + 2

\* SETI(0x123) has run at 0x206
C30_Witness ==
    /\ HasLast /\ Completed(Last)
    /\ Last.ins = [op |-> "SETI", value |-> 291]
    /\ Last.pre.registers.PC = 518
    /\ registers.PC = 520
    /\ registers.I = 291

C31_FetchWord ==
    (HasLast /\ Completed(Last) /\ Last.memory_kept)
      => LET pc == Last.pre.registers.PC
         IN  /\ Last.opcode = memory[pc] * 256 + memory[pc + 1]
             /\ Last.ins.op = "Call"
                  => stack = Append(Last.pre.stack, pc + 2)

\* Call(0x300) fetched at 0x200 has pushed 0x202
C31_Witness ==
    /\ HasLast /\ Completed(Last)
    /\ Last.pre.registers.PC = 512
    /\ memory[512] = 35 /\ memory[513] = 0
    /\ Last.opcode = 8960
    /\ stack[Len(stack)] = 514
    /\ registers.PC = 768

\* the Calls no Return had answered when the last cycle began
SitesBefore == IF Len(log) = 2 THEN log[1].sites ELSE <<>>

\* C32: return addresses come back last in, first out: after Calls made from
\* p1..pk with no Return in between, the next k Returns set PC to pk + 2,
\* ..., p1 + 2 in that order (each Return answers the newest Call not yet
\* answered).
C32_ReturnLifo ==
    (HasLast /\ Completed(Last) /\ Last.ins.op = "Return" /\ SitesBefore # <<>>)
      => (/\ registers.PC = SitesBefore[Len(SitesBefore)] + 2
          /\ Last.sites = SubSeq(SitesBefore, 1, Len(SitesBefore) - 1))

\* three Calls from 0x200, 0x204, 0x208; the third Return in a row is back
\* behind the first Call
C32_Witness ==
    /\ Len(log) = 2 /\ ncycles = 6
    /\ log[1].ins.op = "Return" /\ log[2].ins.op = "Return"
    /\ log[1].pre.registers.PC = 522 /\ log[2].pre.registers.PC = 518
    /\ SitesBefore = <<512>>
    /\ Last.sites = <<>>
    /\ registers.PC = 514

\* C33: in every reachable state each of V0..VF holds a value in 0..255;
\* 7XNN, 8XY4 and 8XY5 store their result modulo 256.
C33_RegistersAreBytes ==
    /\ \A r \in 0..15 : registers.V[r] \in 0..(U8 - 1)
    /\ (HasLast /\ Completed(Last) /\ X(Last) # 15)
         => LET a == Last.pre.registers.V[X(Last)]
                b == Last.pre.registers.V[Y(Last)]
                low == Last.opcode % 16
            IN  /\ Family(Last) = 7
                     => registers.V[X(Last)] = (a + NN(Last)) % U8
                /\ (Family(Last) = 8 /\ low = 4)
                     => registers.V[X(Last)] = (a + b) % U8
                /\ (Family(Last) = 8 /\ low = 5 /\ Y(Last) # 15)
                     => registers.V[X(Last)] = (a - b + U8) % U8

\* 255 + 255 has been stored as 254
C33_Witness ==
    /\ HasLast /\ Completed(Last)
    /\ Family(Last) = 8 /\ Last.opcode % 16 = 4 /\ X(Last) = 0 /\ Y(Last) = 7
    /\ Last.pre.registers.V[0] = 255 /\ Last.pre.registers.V[7] = 255
    /\ registers.V[0] = 254

\* C34: VF is an ordinary register as an operand of 8XY4 and 8XY5: as the
\* destination it receives the wrapped result (and then the flag rule
\* applies: 1 on carry or borrow), as the source its value is the value
\* added or subtracted.
C34_FlagAsOperand ==
    (/\ HasLast /\ Completed(Last)
     /\ Family(Last) = 8 /\ Last.opcode % 16 \in {4, 5}
     /\ (X(Last) = 15 \/ Y(Last) = 15))
    => LET a == Last.pre.registers.V[X(Last)]
           b == Last.pre.registers.V[Y(Last)]
           add == Last.opcode % 16 = 4
           result == IF add THEN (a + b) % U8 ELSE (a - b + U8) % U8
           flag == IF add THEN a + b >= U8 ELSE a < b
       IN  IF X(Last) = 15
           THEN registers.V[15] = (IF flag THEN 1 ELSE result)
           ELSE registers.V[X(Last)] = result

\* the names of the instructions
Instructions ==
    {"NOP", "Display", "Return", "JUMP", "Call", "SKEQ", "SKNEQ", "SKREQ",
     "SET", "ADD", "COPYR", "OR", "AND", "XOR", "ADDR", "SUBX", "SHFTR",
     "SUBY", "SHFTL", "SKRNEQ", "SETI", "JMP0", "RAND", "DRAW", "SKKEQ",
     "SKKNEQ", "SETXD", "STORE", "SETD", "SETS", "ADDI", "SPRITE", "BCD",
     "DUMP", "LOAD"}

\* every register operand of the instruction is one of V0..VF
OperandsGeneral(ins) ==
    /\ "register" \in DOMAIN ins => ins.register \in 0..15
    /\ "register1" \in DOMAIN ins => ins.register1 \in 0..15
    /\ "register2" \in DOMAIN ins => ins.register2 \in 0..15

\* the executor takes the `_` arm, or an arm for I or PC, on an operand of
\* the instruction
DefaultArm(ins) ==
    \/ ~OperandsGeneral(ins)
    \/ ins.op \in {"ADDR", "SUBX"} /\ ins.register1 = 15
    \/ ins.op = "SUBX" /\ ins.register2 = 15
    \/ ins.op \in {"SETXD", "SETD", "SETS"} /\ ins.register = 15

\* each of the 65536 words decodes to an instruction whose register operands
\* are among V0..VF
DecoderGeneral ==
    \A w \in 0..(U16 - 1) :
        /\ parse_opcode(w).op \in Instructions
        /\ OperandsGeneral(parse_opcode(w))

\* C35: the decoder is total and never gives I or PC as an operand: each of
\* the 65536 words decodes to an instruction whose register operands are
\* among V0..VF, so that no decoded instruction reaches an arm for I or PC
\* or a fall-through arm of the executor.
C35_DecoderTotal ==
    /\ (status = "running" /\ ~loaded) => DecoderGeneral
    /\ (HasLast /\ Last.ins.op # "none")
         => /\ Last.ins.op \in Instructions
            /\ OperandsGeneral(Last.ins)
            /\ ~DefaultArm(Last.ins)

\* C36: families 5 and 9 are decoded on the top nibble alone: for every x,
\* y and low nibble n, 5XYn decodes to SKREQ(Vx, Vy) and 9XYn to
\* SKRNEQ(Vx, Vy), and runs as such.
C36_TopNibbleOnly ==
    /\ (status = "running" /\ ~loaded)
         => \A x \in 0..15, y \in 0..15, n \in 0..15 :
               /\ parse_opcode(Enc(5, x, y, n))
                    = [op |-> "SKREQ", register1 |-> x, register2 |-> y]
               /\ parse_opcode(Enc(9, x, y, n))
                    = [op |-> "SKRNEQ", register1 |-> x, register2 |-> y]
    /\ (HasLast /\ Completed(Last) /\ Family(Last) \in {5, 9})
         => LET same == Last.pre.registers.V[X(Last)] = Last.pre.registers.V[Y(Last)]
                skip == IF Family(Last) = 5 THEN same ELSE ~same
            IN  /\ Last.ins = [op |-> IF Family(Last) = 5 THEN "SKREQ" ELSE "SKRNEQ",
                               register1 |-> X(Last), register2 |-> Y(Last)]
                /\ registers.PC = Last.pre.registers.PC + (IF skip THEN 4 ELSE 2)

\* 907F has skipped on V0 = 1, V7 = 128
C36_Witness ==
    /\ HasLast /\ Completed(Last)
    /\ Last.opcode = Enc(9, 0, 7, 15)
    /\ Last.pre.registers.V[0] = 1 /\ Last.pre.registers.V[7] = 128
    /\ registers.PC = Last.pre.registers.PC + 4

\* C37: I is within 0..0xFFFF in every state and no ADDI overflows the 16
\* bits: I + Vx never exceeds 0xFFFF when ADDI runs.
C37_IndexInRange ==
    /\ registers.I \in 0..(U16 - 1)
    /\ (HasLast /\ Last.ins.op = "ADDI")
         => /\ Last.pre.registers.I + Last.pre.registers.V[X(Last)] < U16
            /\ Last.outcome = "ok"

\* no word of the image, at an even or an odd offset, is FX33 or FX55
NoWriter(x) ==
    \A i \in 1..(Len(x) - 1) :
        parse_opcode(x[i] * 256 + x[i + 1]).op \notin {"BCD", "DUMP"}

\* C38: apart from BCD and DUMP no cycle changes a memory cell, so that after
\* any run of other instructions the memory is what it was right after the
\* load.
C38_MemoryKept ==
    /\ (HasLast /\ Last.ins.op \notin {"BCD", "DUMP"}) => Last.memory_kept
    /\ (loaded /\ NoWriter(image)) => memory = load_rom(CPU_new, image).memory

\* a Call has completed at 0x206 and the image is still in memory
C38_Witness ==
    /\ HasLast /\ Completed(Last)
    /\ Last.ins.op = "Call"
    /\ Last.pre.registers.PC = 518
    /\ Len(stack) = StackInit + 1
    /\ Last.memory_kept
    /\ memory[518] = Last.opcode \div 256 /\ memory[519] = Last.opcode % 256

\* C40: only Call, Return and the reset change the stack: a completed Call
\* makes it one deeper, a completed Return one shallower, every other cycle
\* leaves it as it was, and the depth is the power-on depth plus the Calls
\* less the Returns run since.
C40_StackDepth ==
    /\ HasLast
         => /\ (CASE Completed(Last) /\ Last.ins.op = "Call"
                       -> /\ Len(stack) = Len(Last.pre.stack) + 1
                          /\ SubSeq(stack, 1, Len(stack) - 1) = Last.pre.stack
                   [] Completed(Last) /\ Last.ins.op = "Return"
                       -> /\ Len(stack) = Len(Last.pre.stack) - 1
                          /\ stack = SubSeq(Last.pre.stack, 1, Len(stack))
                   [] OTHER -> stack = Last.pre.stack)
            /\ Len(stack) = StackInit + Last.net
    /\ ~HasLast => Len(stack) = StackInit

\* a Return has completed on the power-on stack, which is now 15 deep
C40_Witness ==
    /\ HasLast /\ Completed(Last)
    /\ Last.ins.op = "Return"
    /\ Last.net = -1
    /\ Len(Last.pre.stack) = StackInit
    /\ Len(stack) = StackInit - 1

\* C39: a load changes only the memory cells 0x200..0x200+n-1 and PC: the
\* general registers, I, the stack, the timers and every other memory cell,
\* the bytes a longer image left behind the new one among them, are after
\* the load what they were before it.
C39_LoadFrame ==
    [][image' # image
         => /\ registers' = [registers EXCEPT !.PC = ProgramStart]
            /\ stack' = stack
            /\ timers' = timers
            /\ \A a \in 0..(MemSize - 1) :
                  memory'[a] = IF a >= ProgramStart /\ a < ProgramStart + Len(image')
                               THEN image'[a - ProgramStart + 1]
                               ELSE memory[a]]_vars

\* the second image has been loaded over the first, which had run its four
\* cycles: its last two words are still behind the new image, and V0, I, the
\* delay timer and the stack are as it left them
C39_Witness ==
    /\ image = Bytes(<<24835, 61720>>)
    /\ ncycles = 0 /\ log = <<>>
    /\ registers.PC = ProgramStart
    /\ memory[512] = 97 /\ memory[515] = 24
    /\ memory[516] = 161 /\ memory[517] = 35
    /\ memory[518] = 34 /\ memory[519] = 6
    /\ registers.V[0] = 128 /\ registers.I = 291
    /\ timers.delay = 128
    /\ stack = Append([i \in 1..StackInit |-> 0], 520)

=============================================================================
